---- MODULE Spec2Model ----
(***************************************************************************)
(* Model of ConversationAnalyzer (conversation_analyzer.py): the pipeline  *)
(* run_analysis = preprocess_data; group_conversations;                    *)
(* process_conversations; generate_report.                                 *)
(*                                                                         *)
(* A Python string is a sequence of tokens.  A token is a run of           *)
(* characters that no operation of the program cuts (a phone number, a     *)
(* word, a label of the report template) or one of the characters the      *)
(* program does look at: "," (the members separator), " " (stripped) and   *)
(* "\n" (the line break of the report).                                    *)
(* A pandas cell that may be missing is an option [isna, str].             *)
(***************************************************************************)
EXTENDS Integers, Sequences, FiniteSets, TLC

VARIABLES
    df,             \* self.df: the sequence of rows, in frame order
    conversations,  \* self.conversations: insertion-ordered dict, as a sequence of items
    results,        \* self.results
    report,         \* the text generate_report returns
    calls,          \* customers for which client.chat.completions.create was invoked
    trace,          \* one entry per loop iteration of process_conversations
    pc,             \* position in run_analysis
    error           \* the exception that ended run_analysis ("" when none)

vars == <<df, conversations, results, report, calls, trace, pc, error>>

(***************************************************************************)
(* Bounds                                                                  *)
(***************************************************************************)
MaxRows == 2
MaxResults == 3

(***************************************************************************)
(* Strings                                                                 *)
(***************************************************************************)
support_number == <<"+14159436084">>
Customer1 == <<"+15551234567">>
Customer2 == <<"+15557654321">>

None == [isna |-> TRUE, str |-> <<>>]
Some(s) == [isna |-> FALSE, str |-> s]

RECURSIVE Split(_, _)
\* str.split(sep): always at least one piece
Split(s, sep) ==
    IF \A i \in 1..Len(s) : s[i] # sep THEN <<s>>
    ELSE LET k == CHOOSE i \in 1..Len(s) :
                      s[i] = sep /\ \A j \in 1..(i - 1) : s[j] # sep
         IN  <<SubSeq(s, 1, k - 1)>> \o Split(SubSeq(s, k + 1, Len(s)), sep)

RECURSIVE Strip(_)
\* str.strip(): leading and trailing blanks removed
Strip(s) ==
    IF s = <<>> THEN s
    ELSE IF Head(s) = " " THEN Strip(Tail(s))
    ELSE IF s[Len(s)] = " " THEN Strip(SubSeq(s, 1, Len(s) - 1))
    ELSE s

\* sub in s
Contains(s, sub) ==
    \E i \in 1..(Len(s) - Len(sub) + 1) : SubSeq(s, i, i + Len(sub) - 1) = sub

\* the notice preprocess_data drops
ActivationNotice == <<"Congratulations, your phone number is now active!">>

(***************************************************************************)
(* The raw CSV                                                             *)
(***************************************************************************)
Bodies == { <<"What's my order status?">>,
            <<"Hi! ">> \o ActivationNotice }

\* raw timestamp strings, each one pd.to_datetime parses (a string it cannot
\* parse ends the run before any state the properties speak of);
\* to_datetime gives their instant
RawTimestamps == { "2024-10-29 09:30:00", "10/28/2024 10:00" }

to_datetime(raw) ==
    CASE raw = "10/28/2024 10:00"    -> 1
      [] raw = "2024-10-29 09:30:00" -> 2

\* str(Timestamp)
TimestampStr(t) ==
    CASE t = 1 -> <<"2024-10-28 10:00:00">>
      [] t = 2 -> <<"2024-10-29 09:30:00">>

MemberCells ==
    { None,                                              \* missing cell
      Some(Customer1),                                   \* "+15551234567"
      Some(Customer2),
      Some(support_number \o <<",">> \o Customer1),      \* "+14159436084,+15551234567"
      Some(<<" ">> \o support_number \o <<",">> \o Customer1),
      Some(Customer2 \o <<",", " ">> \o support_number), \* "+15557654321, +14159436084"
      Some(support_number),                              \* the operator alone
      Some(<<" ">>) }                                    \* blank

RawRow(i, b, t, m) ==
    [index |-> i, message_body |-> b, message_timestamp |-> t, message_members |-> m]

RawRowValues == { RawRow(0, b, t, m) : b \in Bodies, t \in RawTimestamps, m \in MemberCells }

(***************************************************************************)
(* preprocess_data                                                         *)
(***************************************************************************)
\* a customer number filter that compares before stripping
ExtractUnstripped(members) ==
    IF members.isna THEN [raised |-> FALSE, value |-> None]
    ELSE LET numbers == Split(members.str, ",")
             kept == SelectSeq(numbers, LAMBDA n : n # support_number)
         IN  IF Len(numbers) > 0
             THEN IF kept = <<>> THEN [raised |-> TRUE, value |-> None]
                  ELSE [raised |-> FALSE, value |-> Some(Strip(kept[1]))]
             ELSE [raised |-> FALSE, value |-> None]

\* _extract_customer_number; raised: the IndexError of [...][0] on an empty list
_extract_customer_number(members) ==
    IF members.isna THEN [raised |-> FALSE, value |-> None]
    ELSE LET numbers == Split(members.str, ",")
             kept == SelectSeq(numbers, LAMBDA n : Strip(n) # support_number)
         IN  IF Len(numbers) > 0
             THEN IF kept = <<>> THEN [raised |-> TRUE, value |-> None]
                  ELSE [raised |-> FALSE, value |-> Some(Strip(kept[1]))]
             ELSE [raised |-> FALSE, value |-> None]

\* lambda x: True if ',' not in str(x) else False   (str(nan) is "nan")
is_ai(members) == members.isna \/ ~Contains(members.str, <<",">>)

\* df[~df['message_body'].str.contains(notice, na=False)]
DropNotices(rows) ==
    SelectSeq(rows, LAMBDA r : ~Contains(r.message_body, ActivationNotice))

ParseTimestamps(rows) ==
    [i \in 1..Len(rows) |->
        [rows[i] EXCEPT !.message_timestamp = to_datetime(rows[i].message_timestamp)]]

Perms(n) == { p \in [1..n -> 1..n] : \A i, j \in 1..n : i # j => p[i] # p[j] }

\* a frame left in the order it had
Unsorted(rows) == { rows }

\* df.sort_values('message_timestamp'): the default quicksort is not stable,
\* so rows with equal timestamps may come out in any order
sort_values(rows) ==
    { [i \in 1..Len(rows) |-> rows[p[i]]] : p \in
        { q \in Perms(Len(rows)) :
            \A i \in 1..(Len(rows) - 1) :
                rows[q[i]].message_timestamp <= rows[q[i + 1]].message_timestamp } }

WithIsAi(rows) ==
    [i \in 1..Len(rows) |->
        [index |-> rows[i].index,
         message_body |-> rows[i].message_body,
         message_timestamp |-> rows[i].message_timestamp,
         message_members |-> rows[i].message_members,
         is_ai |-> is_ai(rows[i].message_members)]]

WithCustomer(rows) ==
    [i \in 1..Len(rows) |->
        [index |-> rows[i].index,
         message_body |-> rows[i].message_body,
         message_timestamp |-> rows[i].message_timestamp,
         message_members |-> rows[i].message_members,
         is_ai |-> rows[i].is_ai,
         customer_number |-> _extract_customer_number(rows[i].message_members).value]]

preprocess_data ==
    /\ pc = "start"
    /\ \E sorted \in sort_values(ParseTimestamps(DropNotices(df))) :
          LET flagged == WithIsAi(sorted)
          IN  IF \E i \in 1..Len(flagged) :
                     _extract_customer_number(flagged[i].message_members).raised
              THEN /\ df' = flagged
                   /\ pc' = "failed"
                   /\ error' = "IndexError"
              ELSE /\ df' = WithCustomer(flagged)
                   /\ pc' = "preprocessed"
                   /\ error' = error
    /\ UNCHANGED <<conversations, results, report, calls, trace>>

(***************************************************************************)
(* group_conversations                                                     *)
(***************************************************************************)
Message(row) ==
    [message_timestamp |-> row.message_timestamp,
     message_body |-> row.message_body,
     is_ai |-> row.is_ai,
     index |-> row.index]     \* the row's label, kept to tell messages apart

KeyPos(convs, customer) ==
    IF \E k \in 1..Len(convs) : convs[k].customer = customer
    THEN CHOOSE k \in 1..Len(convs) : convs[k].customer = customer
    ELSE 0

\* a loop body that starts the list afresh on every row
AppendRowResetting(convs, row) ==
    IF row.customer_number.isna THEN convs
    ELSE LET c == row.customer_number.str
             k == KeyPos(convs, c)
         IN  IF k = 0
             THEN Append(convs, [customer |-> c, messages |-> <<Message(row)>>])
             ELSE [convs EXCEPT ![k].messages = <<Message(row)>>]

\* one iteration of the loop of group_conversations
AppendRow(convs, row) ==
    IF row.customer_number.isna THEN convs
    ELSE LET c == row.customer_number.str
             k == KeyPos(convs, c)
         IN  IF k = 0
             THEN Append(convs, [customer |-> c, messages |-> <<Message(row)>>])
             ELSE [convs EXCEPT ![k].messages = Append(@, Message(row))]

RECURSIVE GroupRows(_, _)
GroupRows(convs, rows) ==
    IF rows = <<>> THEN convs
    ELSE GroupRows(AppendRow(convs, Head(rows)), Tail(rows))

group_conversations ==
    /\ pc = "preprocessed"
    /\ conversations' = GroupRows(conversations, df)
    /\ pc' = "grouped"
    /\ UNCHANGED <<df, results, report, calls, trace, error>>

(***************************************************************************)
(* The external judgment service and json.loads                            *)
(***************************************************************************)
ContentHard ==
    <<"{\"has_query\": true, \"query_type\": \"order status\", \"resolution\": \"RESOLVED\", \"resolution_type\": \"Hard\", \"reasoning\": \"Customer confirmed.\"}">>
ContentNoQuery ==
    <<"{\"has_query\": false, \"query_type\": \"NO_QUERY\", \"resolution\": \"NO_QUERY\", \"resolution_type\": \"NO_QUERY\", \"reasoning\": \"No question asked.\"}">>
ContentProse == <<"The AI resolved the query.">>
ContentList == <<"[]">>
ContentPartial == <<"{\"has_query\": true}">>

Contents == { ContentHard, ContentNoQuery, ContentProse, ContentList, ContentPartial }

\* what client.chat.completions.create does: raise, or answer with a content
Outcomes ==
    { [raises |-> TRUE, content |-> <<>>] }
        \cup { [raises |-> FALSE, content |-> c] : c \in Contents }

Dict(d) == [type |-> "dict", d |-> d]
ListValue == [type |-> "list", d |-> <<>>]
NoValue == [type |-> "none", d |-> <<>>]

ApiErrorDetail == <<"Connection error.">>
JsonErrorDetail == <<"Expecting value: line 1 column 1 (char 0)">>

\* json.loads(content): raised is the JSONDecodeError
json_loads(content) ==
    CASE content = ContentHard ->
            [raised |-> FALSE,
             value |-> Dict([has_query |-> TRUE,
                             query_type |-> <<"order status">>,
                             resolution |-> <<"RESOLVED">>,
                             resolution_type |-> <<"Hard">>,
                             reasoning |-> <<"Customer confirmed.">>])]
      [] content = ContentNoQuery ->
            [raised |-> FALSE,
             value |-> Dict([has_query |-> FALSE,
                             query_type |-> <<"NO_QUERY">>,
                             resolution |-> <<"NO_QUERY">>,
                             resolution_type |-> <<"NO_QUERY">>,
                             reasoning |-> <<"No question asked.">>])]
      [] content = ContentList -> [raised |-> FALSE, value |-> ListValue]
      [] content = ContentPartial ->
            [raised |-> FALSE, value |-> Dict([has_query |-> TRUE])]
      [] OTHER -> [raised |-> TRUE, value |-> NoValue]

(***************************************************************************)
(* analyze_conversation                                                    *)
(***************************************************************************)
NoQueryResult ==
    [has_query |-> FALSE,
     query_type |-> <<"NO_QUERY">>,
     resolution |-> <<"NO_QUERY">>,
     resolution_type |-> <<"NO_QUERY">>,
     reasoning |-> <<"No AI messages found in conversation">>]

\* the dict of the except branch
ErrorResult(detail) ==
    [has_query |-> FALSE,
     query_type |-> <<"ERROR">>,
     resolution |-> <<"ERROR">>,
     resolution_type |-> <<"ERROR">>,
     reasoning |-> <<"Error analyzing conversation: ">> \o detail]

\* the call and the parse of its answer (lines 86-176)
Classify(outcome) ==
    IF outcome.raises THEN Dict(ErrorResult(ApiErrorDetail))
    ELSE LET parsed == json_loads(outcome.content)
         IN  IF parsed.raised THEN Dict(ErrorResult(JsonErrorDetail))
             ELSE parsed.value

\* an analysis that asks the service whatever the thread holds
AnalyzeAlwaysCalling(messages, outcome) ==
    [called |-> TRUE, ret |-> Classify(outcome)]

\* analyze_conversation: what it returns, and whether it called the service
analyze_conversation(messages, outcome) ==
    LET ai_messages == SelectSeq(messages, LAMBDA m : m.is_ai)
    IN  IF ai_messages = <<>>
        THEN [called |-> FALSE, ret |-> Dict(NoQueryResult)]
        ELSE [called |-> TRUE, ret |-> Classify(outcome)]

(***************************************************************************)
(* process_conversations                                                   *)
(***************************************************************************)
conversation_id(conv) ==
    conv.customer \o <<"-">> \o TimestampStr(conv.messages[1].message_timestamp)

\* {'conversation_id': ..., 'messages': ..., **analysis}
ResultRecord(conv, d) ==
    d @@ [conversation_id |-> conversation_id(conv), messages |-> Len(conv.messages)]

\* one iteration of the loop: st = [results, calls, trace]
ProcessOne(st, conv, outcome) ==
    IF conv.customer = <<>>          \* not customer_number
    THEN [st EXCEPT !.trace = Append(@,
            [customer |-> conv.customer, skipped |-> TRUE, called |-> FALSE,
             outcome |-> outcome, analysis |-> NoValue, appended |-> FALSE])]
    ELSE LET a == analyze_conversation(conv.messages, outcome)
             ok == a.ret.type = "dict"       \* ** of a non-mapping is a TypeError
         IN  [results |-> IF ok THEN Append(st.results, ResultRecord(conv, a.ret.d))
                          ELSE st.results,
              calls |-> IF a.called THEN Append(st.calls, conv.customer) ELSE st.calls,
              trace |-> Append(st.trace,
                  [customer |-> conv.customer, skipped |-> FALSE, called |-> a.called,
                   outcome |-> outcome, analysis |-> a.ret, appended |-> ok])]

RECURSIVE ProcessFrom(_, _, _)
ProcessFrom(i, outs, st) ==
    IF i > Len(conversations) THEN st
    ELSE ProcessFrom(i + 1, outs, ProcessOne(st, conversations[i], outs[i]))

process_conversations ==
    /\ pc = "grouped"
    /\ \E outs \in [1..Len(conversations) -> Outcomes] :
          LET st == ProcessFrom(1, outs,
                        [results |-> results, calls |-> calls, trace |-> trace])
          IN  /\ results' = st.results
              /\ calls' = st.calls
              /\ trace' = st.trace
    /\ pc' = "processed"
    /\ UNCHANGED <<df, conversations, report, error>>

(***************************************************************************)
(* generate_report                                                         *)
(***************************************************************************)
NL == "\n"

Digit(d) == <<"0", "1", "2", "3", "4", "5", "6", "7", "8", "9">>[d + 1]

RECURSIVE IntStr(_)
\* str(n) of a natural number
IntStr(n) == IF n < 10 THEN <<Digit(n)>> ELSE IntStr(n \div 10) \o <<Digit(n % 10)>>

\* str.upper() of one token
UpperToken(t) ==
    CASE t = "Resolved"     -> "RESOLVED"
      [] t = "resolved"     -> "RESOLVED"
      [] t = "Hard"         -> "HARD"
      [] t = "hard"         -> "HARD"
      [] t = "Soft"         -> "SOFT"
      [] t = "None"         -> "NONE"
      [] t = "order status" -> "ORDER STATUS"
      [] OTHER              -> t

upper(s) == [i \in 1..Len(s) |-> UpperToken(s[i])]

\* r.get('has_query', False), as a truth value
HasQuery(r) == IF "has_query" \in DOMAIN r THEN r.has_query ELSE FALSE

\* a count of resolutions that compares the case as written
CountResolvedExactCase(query_results) ==
    Len(SelectSeq(query_results, LAMBDA r : r.resolution = <<"RESOLVED">>))

\* sum(1 for r in query_results if str(r['resolution']).upper() == 'RESOLVED')
CountResolved(query_results) ==
    Len(SelectSeq(query_results, LAMBDA r : upper(r.resolution) = <<"RESOLVED">>))

\* f"{resolution_rate:.1f}" of (resolved / total * 100) if total > 0 else 0, in
\* tenths.  The quotient is a multiple of 0.05 that is not a multiple of 0.1 only
\* when 16 divides total, so below 16 results no tie is rounded.
RateTenths(resolved, total) ==
    IF total > 0 THEN (2000 * resolved + total) \div (2 * total) ELSE 0

RateStr(resolved, total) ==
    LET t == RateTenths(resolved, total)
    IN  IntStr(t \div 10) \o <<".">> \o IntStr(t % 10)

\* the numbers of the Overview (lines 206-215)
Statistics(rs) ==
    LET query_results == SelectSeq(rs, HasQuery)
    IN  [total |-> Len(rs),
         no_query |-> Len(rs) - Len(query_results),
         with_query |-> Len(query_results),
         resolved |-> CountResolved(query_results),
         hard |-> Len(SelectSeq(query_results, LAMBDA r : r.resolution_type = <<"Hard">>)),
         soft |-> Len(SelectSeq(query_results, LAMBDA r : r.resolution_type = <<"Soft">>))]

\* the KeyError of r['resolution'], r['resolution_type'] (lines 211-215) or of a
\* field of the detail block (lines 233-240)
ReportRaises(rs) ==
    \/ \E i \in 1..Len(rs) :
          HasQuery(rs[i]) /\ ~({"resolution", "resolution_type"} \subseteq DOMAIN rs[i])
    \/ \E i \in 1..Len(rs) :
          ~({"conversation_id", "query_type", "resolution", "resolution_type",
             "reasoning"} \subseteq DOMAIN rs[i])

Overview(rs) ==
    LET s == Statistics(rs)
    IN  <<"# Conversation Analysis Report", NL, NL,
          "## Overview", NL,
          "- Total Conversations: ">> \o IntStr(s.total) \o <<NL,
          "- Conversations Without Queries: ">> \o IntStr(s.no_query) \o <<NL,
          "- Conversations With Queries: ">> \o IntStr(s.with_query) \o <<NL,
          "- Resolution Rate (for conversations with queries): ">>
              \o RateStr(s.resolved, s.with_query) \o <<"%", NL,
          "- Hard Resolutions: ">> \o IntStr(s.hard) \o <<NL,
          "- Soft Resolutions: ">> \o IntStr(s.soft) \o <<NL, NL,
          "## Detailed Analysis", NL>>

\* the block appended for one result (lines 231-243)
DetailBlock(r) ==
    <<NL, "### Conversation ">> \o r.conversation_id \o <<NL,
      "**Query Status:** ", IF HasQuery(r) THEN "Query Present" ELSE "No Query", NL,
      "**Query Type:** ">> \o r.query_type \o <<NL,
      "**Resolution Status:** ">> \o r.resolution \o <<NL,
      "**Resolution Type:** ">> \o r.resolution_type \o <<NL, NL,
      "**Analysis:**", NL>> \o r.reasoning \o <<NL, NL, "---", NL>>

RECURSIVE DetailBlocks(_)
DetailBlocks(rs) ==
    IF rs = <<>> THEN <<>> ELSE DetailBlock(Head(rs)) \o DetailBlocks(Tail(rs))

generate_report ==
    /\ pc = "processed"
    /\ IF ReportRaises(results)
       THEN /\ pc' = "failed"
            /\ error' = "KeyError"
            /\ report' = report
       ELSE /\ pc' = "done"
            /\ error' = error
            /\ report' = Overview(results) \o DetailBlocks(results)
    /\ UNCHANGED <<df, conversations, results, calls, trace>>

(***************************************************************************)
(* Specification                                                           *)
(***************************************************************************)
Init ==
    /\ \E n \in 0..MaxRows : \E f \in [1..n -> RawRowValues] :
          df = [i \in 1..n |-> [f[i] EXCEPT !.index = i]]
    /\ conversations = <<>>
    /\ results = <<>>
    /\ report = <<>>
    /\ calls = <<>>
    /\ trace = <<>>
    /\ pc = "start"
    /\ error = ""

Next ==
    \/ preprocess_data
    \/ group_conversations
    \/ process_conversations
    \/ generate_report

Spec == Init /\ [][Next]_vars

(***************************************************************************)
(* generate_report over results collections                                *)
(***************************************************************************)
ReportedId == Customer1 \o <<"-">> \o TimestampStr(1)

Result(q, qt, res, rt, why) ==
    [conversation_id |-> ReportedId, messages |-> 2, has_query |-> q,
     query_type |-> qt, resolution |-> res, resolution_type |-> rt, reasoning |-> why]

\* a reasoning that quotes a block of an earlier report
QuotedBlock ==
    <<"As in the earlier report:", NL,
      "### Conversation ", "+15550000000-2024-10-01 08:00:00", NL,
      "**Query Status:** ", "Query Present", NL,
      "**Resolution Status:** ", "RESOLVED", NL,
      "**Resolution Type:** ", "Hard">>

ResultValues ==
    { Result(TRUE, <<"order status">>, <<"RESOLVED">>, <<"Hard">>, <<"Customer confirmed.">>),
      Result(TRUE, <<"order status">>, <<"Resolved">>, <<"Soft">>, <<"No follow-up.">>),
      Result(TRUE, <<"order status">>, <<"UNRESOLVED">>, <<"None">>, <<"Handed to a human.">>),
      Result(TRUE, <<"refund">>, <<"RESOLVED">>, <<"hard">>, <<"Customer confirmed.">>),
      Result(TRUE, <<"refund">>, <<"UNRESOLVED">>, <<"None">>, QuotedBlock),
      Result(TRUE, <<"refund", NL, "**Resolution Status:** ", "RESOLVED">>,
             <<"UNRESOLVED">>, <<"None">>, <<"Handed to a human.">>),
      Result(FALSE, <<"NO_QUERY">>, <<"NO_QUERY">>, <<"NO_QUERY">>, <<"No question asked.">>),
      Result(FALSE, <<"NO_QUERY">>, <<"RESOLVED">>, <<"Hard">>, <<"No question asked.">>),
      Dict(ErrorResult(ApiErrorDetail)).d @@ [conversation_id |-> ReportedId, messages |-> 2],
      [conversation_id |-> ReportedId, messages |-> 2, has_query |-> TRUE] }

InitReport ==
    /\ \E n \in 0..MaxResults : results \in [1..n -> ResultValues]
    /\ df = <<>>
    /\ conversations = <<>>
    /\ report = <<>>
    /\ calls = <<>>
    /\ trace = <<>>
    /\ pc = "processed"
    /\ error = ""

NextReport == generate_report

SpecReport == InitReport /\ [][NextReport]_vars

(***************************************************************************)
(* Vocabulary of the properties                                            *)
(***************************************************************************)
\* group_conversations has run
Grouped == pc \in {"grouped", "processed", "done"} \/ (pc = "failed" /\ error = "KeyError")

\* process_conversations has run
Processed == pc \in {"processed", "done"} \/ (pc = "failed" /\ error = "KeyError")

\* the rows of df carry customer_number
Extracted == pc = "preprocessed" \/ Grouped

ClassificationFields ==
    {"has_query", "query_type", "resolution", "resolution_type", "reasoning"}

\* the content is a JSON object with the five fields of a ClassificationResult
ValidStructured(content) ==
    LET parsed == json_loads(content)
    IN  /\ ~parsed.raised
        /\ parsed.value.type = "dict"
        /\ DOMAIN parsed.value.d = ClassificationFields

\* the call failed, or its answer is not valid structured data
FailedOrUnparsable(e) ==
    e.called /\ (e.outcome.raises \/ ~ValidStructured(e.outcome.content))

StartsWith(s, prefix) == Len(s) >= Len(prefix) /\ SubSeq(s, 1, Len(prefix)) = prefix

\* a value with the categorical fields at the ERROR sentinel and the failure
\* detail in reasoning
IsErrorResult(v) ==
    /\ v.type = "dict"
    /\ ClassificationFields \subseteq DOMAIN v.d
    /\ v.d.query_type = <<"ERROR">>
    /\ v.d.resolution = <<"ERROR">>
    /\ v.d.resolution_type = <<"ERROR">>
    /\ StartsWith(v.d.reasoning, <<"Error analyzing conversation: ">>)
    /\ Len(v.d.reasoning) > 1

NoOperatorMessage(conv) == \A j \in 1..Len(conv.messages) : ~conv.messages[j].is_ai

(***************************************************************************)
(* C1                                                                      *)
(***************************************************************************)
\* C1: a thread with no operator-authored (is_ai) message is classified without
\* any call of the external service, and its analysis is has_query = false with
\* query_type, resolution and resolution_type all NO_QUERY.
C1_NoOperatorShortCircuit ==
    \A i \in 1..Len(trace) :
        (~trace[i].skipped /\ NoOperatorMessage(conversations[i])) =>
            /\ ~trace[i].called
            /\ \A c \in 1..Len(calls) : calls[c] # conversations[i].customer
            /\ trace[i].analysis.type = "dict"
            /\ trace[i].analysis.d.has_query = FALSE
            /\ trace[i].analysis.d.query_type = <<"NO_QUERY">>
            /\ trace[i].analysis.d.resolution = <<"NO_QUERY">>
            /\ trace[i].analysis.d.resolution_type = <<"NO_QUERY">>

\* a processed batch with a customer-only thread beside a thread that was sent
\* to the service
C1_Witness ==
    /\ pc = "processed"
    /\ \E i, k \in 1..Len(trace) :
          /\ ~trace[i].skipped
          /\ NoOperatorMessage(conversations[i])
          /\ trace[i].appended
          /\ trace[k].called

(***************************************************************************)
(* C2                                                                      *)
(***************************************************************************)
\* C2: whenever the external call fails or its answer is not valid structured
\* data, analyze_conversation returns a result with the ERROR sentinel in its
\* categorical fields and the failure detail in reasoning.
C2_FailureGivesErrorResult ==
    \A i \in 1..Len(trace) :
        FailedOrUnparsable(trace[i]) => IsErrorResult(trace[i].analysis)

(***************************************************************************)
(* C3                                                                      *)
(***************************************************************************)
\* C3: after process_conversations, results holds exactly one record per thread
\* of the grouping, in the order of the mapping, whatever the service did.
C3_OneRecordPerThread ==
    Processed =>
        /\ Len(results) = Len(conversations)
        /\ \A i \in 1..Len(conversations) :
              i <= Len(results) =>
                  /\ results[i].conversation_id = conversation_id(conversations[i])
                  /\ results[i].messages = Len(conversations[i].messages)

(***************************************************************************)
(* C4                                                                      *)
(***************************************************************************)
\* C4: an answer without the required structured shape gives an ERROR result
\* recorded for that thread, and the pipeline still ends with a report:
\* generate_report does not raise.
C4_MalformedAnswerIsRecordedError ==
    /\ \A i \in 1..Len(trace) :
          (trace[i].called /\ ~trace[i].outcome.raises
              /\ ~ValidStructured(trace[i].outcome.content)) =>
                  trace[i].appended /\ IsErrorResult(trace[i].analysis)
    /\ ~(pc = "failed" /\ error = "KeyError")

(***************************************************************************)
(* C5                                                                      *)
(***************************************************************************)
\* the places <<k, j>> of the threads that hold the message of row r
PlacesOf(r) ==
    { kj \in { <<k, j>> : k \in 1..Len(conversations), j \in 1..Len(df) } :
        /\ kj[2] <= Len(conversations[kj[1]].messages)
        /\ conversations[kj[1]].messages[kj[2]].index = r.index }

RECURSIVE TotalMessages(_)
TotalMessages(convs) ==
    IF convs = <<>> THEN 0 ELSE Len(Head(convs).messages) + TotalMessages(Tail(convs))

\* C5: grouping is a partition of the normalized rows that have a counterparty:
\* every such row is in exactly one place of exactly one thread (under its own
\* counterparty, as the message made of it), the threads hold nothing else, each
\* thread keeps the frame's order, and no thread is empty.
C5_GroupingIsPartition ==
    Grouped =>
        LET Defined == SelectSeq(df, LAMBDA r : ~r.customer_number.isna)
        IN  /\ \A i \in 1..Len(Defined) :
                  /\ Cardinality(PlacesOf(Defined[i])) = 1
                  /\ \A kj \in PlacesOf(Defined[i]) :
                        /\ conversations[kj[1]].customer = Defined[i].customer_number.str
                        /\ conversations[kj[1]].messages[kj[2]] = Message(Defined[i])
            /\ TotalMessages(conversations) = Len(Defined)
            /\ \A k \in 1..Len(conversations) : conversations[k].messages # <<>>
            /\ \A k, l \in 1..Len(conversations) :
                  k # l => conversations[k].customer # conversations[l].customer
            /\ \A k \in 1..Len(conversations) :
                  conversations[k].messages =
                      [j \in 1..Len(conversations[k].messages) |->
                          Message(SelectSeq(Defined, LAMBDA r :
                              r.customer_number.str = conversations[k].customer)[j])]

\* two rows of one counterparty grouped into one thread of two messages
C5_Witness ==
    /\ pc = "grouped"
    /\ Len(df) = 2
    /\ Len(conversations) = 1
    /\ Len(conversations[1].messages) = 2

\* a row without counterparty left out beside a row that made a thread
C5_WitnessUndefined ==
    /\ pc = "grouped"
    /\ \E i \in 1..Len(df) : df[i].customer_number.isna
    /\ Len(conversations) = 1

(***************************************************************************)
(* C6                                                                      *)
(***************************************************************************)
\* C6: after preprocess_data and group_conversations every thread's messages are
\* in non-decreasing order of timestamp, whatever the order of the raw rows.
C6_ThreadsSortedByTimestamp ==
    Grouped =>
        \A k \in 1..Len(conversations) :
            \A j \in 1..(Len(conversations[k].messages) - 1) :
                conversations[k].messages[j].message_timestamp
                    <= conversations[k].messages[j + 1].message_timestamp

\* a thread whose earlier message came later in the raw rows
C6_Witness ==
    /\ pc = "grouped"
    /\ \E k \in 1..Len(conversations) :
          /\ Len(conversations[k].messages) = 2
          /\ conversations[k].messages[1].index > conversations[k].messages[2].index
          /\ conversations[k].messages[1].message_timestamp
                < conversations[k].messages[2].message_timestamp

(***************************************************************************)
(* C7                                                                      *)
(***************************************************************************)
\* C7: the counterparty derived for a row, and so every thread key, is never the
\* operator's number.
C7_CounterpartyIsNotOperator ==
    /\ Extracted => \A i \in 1..Len(df) : df[i].customer_number # Some(support_number)
    /\ \A k \in 1..Len(conversations) : conversations[k].customer # support_number

\* a row listing the operator (behind a blank) and a customer, grouped under the
\* customer
C7_Witness ==
    /\ pc = "grouped"
    /\ \E i \in 1..Len(df) :
          /\ df[i].message_members = Some(<<" ">> \o support_number \o <<",">> \o Customer1)
          /\ df[i].customer_number = Some(Customer1)
          /\ \E k \in 1..Len(conversations) : conversations[k].customer = Customer1

(***************************************************************************)
(* C8                                                                      *)
(***************************************************************************)
\* the participant list is missing, blank, or has no entry but the operator's
Malformed(members) ==
    \/ members.isna
    \/ LET numbers == Split(members.str, ",")
       IN  \A n \in 1..Len(numbers) :
               Strip(numbers[n]) = <<>> \/ Strip(numbers[n]) = support_number

\* C8: for a row whose participant list is empty or malformed, the extraction
\* gives the undefined counterparty without failing, and the row is in no thread
\* and makes no thread key.
C8_MalformedRowsAreExcluded ==
    /\ ~(pc = "failed" /\ error = "IndexError")
    /\ Extracted =>
          \A i \in 1..Len(df) :
              Malformed(df[i].message_members) =>
                  /\ df[i].customer_number = None
                  /\ \A k \in 1..Len(conversations) :
                        \A j \in 1..Len(conversations[k].messages) :
                            conversations[k].messages[j].index # df[i].index

(***************************************************************************)
(* Reading a rendered report back                                          *)
(***************************************************************************)
ReportLines == Split(report, NL)

DigitValue(t) == CHOOSE d \in 0..9 : Digit(d) = t

IsDigit(t) == \E d \in 0..9 : Digit(d) = t

RECURSIVE ParseInt(_)
\* int(digits)
ParseInt(digits) ==
    IF digits = <<>> THEN 0
    ELSE 10 * ParseInt(SubSeq(digits, 1, Len(digits) - 1)) + DigitValue(digits[Len(digits)])

RateLabel == "- Resolution Rate (for conversations with queries): "

\* the Resolution Rate line of the Overview: the seventh line of the report
RateLine == ReportLines[7]

\* the line reads <label> <digits> "." <one digit> "%"
RateShownToOneDecimal ==
    /\ Len(RateLine) >= 5
    /\ RateLine[1] = RateLabel
    /\ \A i \in 2..(Len(RateLine) - 3) : IsDigit(RateLine[i])
    /\ RateLine[Len(RateLine) - 2] = "."
    /\ IsDigit(RateLine[Len(RateLine) - 1])
    /\ RateLine[Len(RateLine)] = "%"

\* the rate the report shows, in tenths of a percent
ShownTenths ==
    10 * ParseInt(SubSeq(RateLine, 2, Len(RateLine) - 3))
        + DigitValue(RateLine[Len(RateLine) - 1])

\* the lines that open a detail block
BlockStarts ==
    { i \in 1..Len(ReportLines) : StartsWith(ReportLines[i], <<"### Conversation ">>) }

\* the lines of the block opened at line i: up to the next opening line
BlockEnd(i) ==
    IF \E j \in BlockStarts : j > i
    THEN (CHOOSE j \in BlockStarts : j > i /\ \A l \in BlockStarts : l > i => j <= l) - 1
    ELSE Len(ReportLines)

\* the value of the first line of the block at i that carries the label ("" when none)
FieldOf(i, label) ==
    LET at == { l \in i..BlockEnd(i) : StartsWith(ReportLines[l], <<label>>) }
    IN  IF at = {} THEN <<>>
        ELSE Tail(ReportLines[CHOOSE l \in at : \A m \in at : l <= m])

BlockHasQuery(i) == FieldOf(i, "**Query Status:** ") = <<"Query Present">>

\* the totals re-derived from the detail blocks of the text
Rescanned ==
    LET withq == { i \in BlockStarts : BlockHasQuery(i) }
    IN  [total |-> Cardinality(BlockStarts),
         no_query |-> Cardinality(BlockStarts \ withq),
         with_query |-> Cardinality(withq),
         resolved |-> Cardinality({ i \in withq :
                          upper(FieldOf(i, "**Resolution Status:** ")) = <<"RESOLVED">> }),
         hard |-> Cardinality({ i \in withq :
                          FieldOf(i, "**Resolution Type:** ") = <<"Hard">> }),
         soft |-> Cardinality({ i \in withq :
                          FieldOf(i, "**Resolution Type:** ") = <<"Soft">> })]

\* the k-th opening line of the text
NthBlockStart(k) ==
    CHOOSE i \in BlockStarts : Cardinality({ j \in BlockStarts : j <= i }) = k

(***************************************************************************)
(* C9                                                                      *)
(***************************************************************************)
\* every record carries the five fields of a ClassificationResult
WellFormed(rs) ==
    \A i \in 1..Len(rs) : ClassificationFields \subseteq DOMAIN rs[i]

\* equal to "RESOLVED" when case is ignored
IsResolvedAnyCase(s) == s \in { <<"RESOLVED">>, <<"Resolved">>, <<"resolved">> }

WithQuery == { i \in 1..Len(results) : results[i].has_query }

ResolvedAnyCase == { i \in WithQuery : IsResolvedAnyCase(results[i].resolution) }

\* C9: over a collection of classification results generate_report does not
\* fault, and the Resolution Rate it prints has one decimal and is the tenth
\* nearest to 100 * (has_query results whose resolution is "RESOLVED" in any
\* case) / (has_query results), and 0.0 when there is no has_query result.
C9_ResolutionRate ==
    (pc # "processed" /\ WellFormed(results)) =>
        /\ pc = "done"
        /\ RateShownToOneDecimal
        /\ IF WithQuery = {} THEN ShownTenths = 0
           ELSE LET exact == 1000 * Cardinality(ResolvedAnyCase)
                    n == Cardinality(WithQuery)
                    diff == ShownTenths * n - exact
                IN  2 * diff <= n /\ 2 * diff >= -n

\* three results with a query, "RESOLVED", "Resolved" and "UNRESOLVED": 66.7%
C9_Witness ==
    /\ pc = "done"
    /\ Len(results) = 3
    /\ Cardinality(WithQuery) = 3
    /\ \E i, j, k \in 1..3 :
          /\ results[i].resolution = <<"RESOLVED">>
          /\ results[j].resolution = <<"Resolved">>
          /\ results[k].resolution = <<"UNRESOLVED">>
    /\ RateLine = <<RateLabel, "6", "6", ".", "7", "%">>

\* no result with a query: the rate is printed as 0.0
C9_WitnessNoQuery ==
    /\ pc = "done"
    /\ Len(results) = 2
    /\ WithQuery = {}
    /\ RateLine = <<RateLabel, "0", ".", "0", "%">>

(***************************************************************************)
(* C10                                                                     *)
(***************************************************************************)
\* C10: the totals re-derived from the detail blocks of the rendered text are
\* the statistics of the collection, and the text has one block per result, in
\* processing order, whatever the free text of query_type and reasoning.
C10_RoundTrip ==
    pc = "done" =>
        /\ Rescanned = Statistics(results)
        /\ Cardinality(BlockStarts) = Len(results)
        /\ \A k \in 1..Len(results) :
              k <= Cardinality(BlockStarts) =>
                  Tail(ReportLines[NthBlockStart(k)]) = results[k].conversation_id

\* no line of a free-text field opens with a label of the template
PlainText(s) ==
    \A i \in 1..Len(s) :
        s[i] \notin {NL, "### Conversation ", "**Query Status:** ",
                     "**Resolution Status:** ", "**Resolution Type:** "}

\* the round trip over collections whose free text is plain
RoundTripOfPlainText ==
    (pc = "done" /\ \A i \in 1..Len(results) :
                        PlainText(results[i].query_type) /\ PlainText(results[i].reasoning)) =>
        /\ Rescanned = Statistics(results)
        /\ Cardinality(BlockStarts) = Len(results)
====
